---- MODULE Spec2Model ----
(***************************************************************************)
(* Model of scripts/generate_folium.py: generate_folium_map builds a       *)
(* folium map from the *.geojson files of a data directory (two choropleth *)
(* layers per selected file, each with a colormap and a BindColormap),     *)
(* saves it as HTML, and the saved page reacts to the layer control's      *)
(* overlayadd / overlayremove events through the BindColormap script.      *)
(***************************************************************************)
EXTENDS Integers, Sequences, FiniteSets, TLC

(***************************************************************************)
(* Bounds of the model.                                                    *)
(***************************************************************************)
\* largest number of files in the data directory
MaxFiles == 3
\* largest number of layer-control events followed in the saved page
MaxEvents == 2

(***************************************************************************)
(* Strings are sequences of one-character strings, so that split() and     *)
(* int() are computed and not assumed.                                     *)
(***************************************************************************)
Digits == <<"0", "1", "2", "3", "4", "5", "6", "7", "8", "9">>

IsDigit(c) == \E d \in 1..10 : Digits[d] = c

DigitValue(c) == (CHOOSE d \in 1..10 : Digits[d] = c) - 1

\* s.split(sep)[-1]: what follows the last occurrence of sep (all of s if none)
SplitLast(s, sep) ==
    LET hits == {i \in 1..Len(s) : s[i] = sep}
        last == IF hits = {} THEN 0
                ELSE CHOOSE i \in hits : \A j \in hits : j <= i
    IN  SubSeq(s, last + 1, Len(s))

RECURSIVE DecimalValue(_)
DecimalValue(tok) ==
    IF tok = <<>> THEN 0
    ELSE 10 * DecimalValue(SubSeq(tok, 1, Len(tok) - 1)) + DigitValue(tok[Len(tok)])

\* int(tok) raises ValueError unless tok is a non-empty run of digits (the
\* alphabet of the model has no sign, blank or inner underscore)
IntRaises(tok) == tok = <<>> \/ \E i \in 1..Len(tok) : ~IsDigit(tok[i])

PyInt(tok) == DecimalValue(tok)

\* str(n) for a natural number n
RECURSIVE PyStr(_)
PyStr(n) == IF n < 10 THEN <<Digits[n + 1]>>
            ELSE PyStr(n \div 10) \o <<Digits[(n % 10) + 1]>>

\* a parse that keeps the digits of the stem, wherever they stand
YearTokenDigits(stem) == SelectSeq(stem, IsDigit)

\* the token the year is parsed from: fpath.stem.split('_')[-1].split('-')[-1]
YearToken(stem) == SplitLast(SplitLast(stem, "_"), "-")

(***************************************************************************)
(* The inputs: file names, file contents, arguments.                       *)
(***************************************************************************)
GEOJSON == ".geojson"

File(stem, suffix) == [stem |-> stem, suffix |-> suffix]

NameUniverse ==
    { File(<<"w", "w", "_", "2", "0", "1", "6">>, GEOJSON),
      File(<<"w", "w", "-", "2", "0", "1", "8">>, GEOJSON),
      File(<<"b", "_", "w", "-", "2", "0", "1", "8">>, GEOJSON),
      File(<<"w", "-", "w", "_", "2", "0", "1", "9">>, GEOJSON),
      File(<<"2", "0", "1", "8", "_", "w", "w">>, GEOJSON),
      File(<<"n", "o", "t", "e", "s">>, ".txt") }

COL_ID == "id"
COL_EMERGENCE_DOY == "emergence_date:doy"
COL_HEADING_DOY == "heading_date:doy"
COL_EMERGENCE_DATE == "Auflaufen (BBCH 09)"
COL_HEADING_DATE == "Ende des Aehrenschieben (BBCH 59)"

AllColumns ==
    {COL_ID, COL_EMERGENCE_DOY, COL_HEADING_DOY, COL_EMERGENCE_DATE, COL_HEADING_DATE}

\* A feature table: the 'id' column's values row by row (row i has index i-1)
\* and the columns present.  The value of column c in the row whose
\* identifier is k is the pair <<c, k>>: every feature has its own strings.
Frame(ids, columns) == [ids |-> ids, columns |-> columns]

Contents ==
    { Frame(<<0, 1>>, AllColumns),
      Frame(<<1, 0>>, AllColumns),
      Frame(<<0, 2>>, AllColumns),
      Frame(<<0, 1>>, AllColumns \ {COL_ID}),
      Frame(<<0, 1>>, AllColumns \ {COL_EMERGENCE_DOY}),
      Frame(<<0, 1>>, AllColumns \ {COL_HEADING_DATE}) }

DEFAULT_SELECTED_YEARS == <<2018, 2019, 2020>>

SelectedYearsChoices ==
    {<<>>, <<2016>>, <<2018, 2019>>, DEFAULT_SELECTED_YEARS}

(***************************************************************************)
(* geopandas and folium, as far as the script uses them.                   *)
(***************************************************************************)
\* the value of column c in the row whose identifier is k
Value(c, k) == IF c = COL_ID THEN <<k>> ELSE <<c, k>>

\* gdf.__geo_interface__, from which folium.Choropleth builds geojson.data:
\* feature i carries the row's position as its top-level 'id' (a string),
\* the row's columns as properties and the row's geometry
GeoInterface(frame) ==
    [i \in 1..Len(frame.ids) |->
        [id |-> PyStr(i - 1),
         properties |-> [c \in frame.columns |-> Value(c, frame.ids[i])],
         geometry |-> <<"geometry", frame.ids[i]>>]]

\* gdf.set_index('id') raises KeyError without an 'id' column
SetIndexRaises(frame) == COL_ID \notin frame.columns

\* gdf_indexed.loc[key, col]: the row whose 'id' is key, KeyError if none
LocRaises(frame, key, col) ==
    \/ \A i \in 1..Len(frame.ids) : frame.ids[i] # key
    \/ col \notin frame.columns \ {COL_ID}

Loc(frame, key, col) == Value(col, key)

\* folium.Choropleth(data=gdf, columns=[...]) raises KeyError on a missing column
ChoroplethRaises(frame, columns) ==
    \E i \in 1..Len(columns) : columns[i] \notin frame.columns

\* the children a Choropleth is born with: its GeoJson, then (data being
\* given) its colour scale, under keys 'geo_json_<id>' and 'color_map_<id>'
ChoroplethChildren(uid) == << <<"geo_json", uid>>, <<"color_map", uid>> >>

Choropleth(frame, uid, name, columns, legend_name, show) ==
    [type |-> "Choropleth", uid |-> uid, name |-> name, columns |-> columns,
     legend_name |-> legend_name, show |-> show,
     features |-> GeoInterface(frame), tooltip |-> <<>>,
     children |-> ChoroplethChildren(uid)]

\* key.startswith('color_map')
IsColorMapKey(key) == key[1] = "color_map"

ColorMap(key) == [type |-> "ColorMap", uid |-> key[2]]

BindColormap(layer, colormap) ==
    [type |-> "BindColormap", layer |-> layer.uid, colormap |-> colormap.uid]

LayerControl == [type |-> "LayerControl"]

TileLayer == [type |-> "TileLayer"]

\* "for key in layer._children: if key.startswith('color_map'): ..." on an
\* ordered dict: the first colour-map key is taken and deleted; the iteration
\* goes on only if that key was the last one, else it raises RuntimeError
FirstColorMapKey(children) ==
    LET hits == {i \in 1..Len(children) : IsColorMapKey(children[i])}
    IN  IF hits = {} THEN 0 ELSE CHOOSE i \in hits : \A j \in hits : i <= j

HandleColormapRaises(children) ==
    LET k == FirstColorMapKey(children) IN k # 0 /\ k < Len(children)

\* a loop that never assigns branca_color_map
HandleColormapStale(children, previous) == previous

\* branca_color_map after the loop: the layer's colour map, or what it was
HandleColormap(children, previous) ==
    LET k == FirstColorMapKey(children)
    IN  IF k = 0 THEN previous ELSE ColorMap(children[k])

DetachColormap(children) ==
    LET k == FirstColorMapKey(children)
    IN  IF k = 0 THEN children
        ELSE SubSeq(children, 1, k - 1) \o SubSeq(children, k + 1, Len(children))

(***************************************************************************)
(* The body of the loop of generate_folium_map.                            *)
(***************************************************************************)
Unbound == [type |-> "unbound"]

\* year = int(fpath.stem.split('_')[-1].split('-')[-1])
YearRaises(fpath) == IntRaises(YearToken(fpath.stem))

Year(fpath) == PyInt(YearToken(fpath.stem))

\* a filter that lets every year through
SelectedAlways(year, years) == TRUE

\* year in selected_years
Selected(year, years) == \E i \in 1..Len(years) : years[i] = year

\* show = True for every emergence layer
ShowAlways(i) == TRUE

\* show = idx == 0
EmergenceShow(i) == i = 0

HeadingShow == FALSE

EmergenceColumns == <<COL_ID, COL_EMERGENCE_DOY>>

HeadingColumns == <<COL_ID, COL_HEADING_DOY>>

EmergenceTooltip == COL_EMERGENCE_DATE

\* the heading tooltip reading the emergence column
HeadingTooltipSwapped == COL_EMERGENCE_DATE

HeadingTooltip == COL_HEADING_DATE

Emergence(frame, fpath, i) ==
    Choropleth(frame, <<fpath.stem, "emergence">>, <<Year(fpath), "Auflaufen">>,
               EmergenceColumns,
               <<"Beginn des Auflaufens", Year(fpath)>>, EmergenceShow(i))

Heading(frame, fpath) ==
    Choropleth(frame, <<fpath.stem, "heading">>, <<Year(fpath), "Aehrenschieben">>,
               HeadingColumns,
               <<"Ende des Aehrenschiebens", Year(fpath)>>, HeadingShow)

\* the key of the attribute lookup for feature s: int(s['id'])
LookupKey(s) == PyInt(s.id)

\* for s in layer.geojson.data['features']:
\*     s['properties'][field] = gdf_indexed.loc[int(s['id']), field]
TooltipRaises(layer, frame, field) ==
    \E i \in 1..Len(layer.features) :
        LocRaises(frame, LookupKey(layer.features[i]), field)

WithTooltip(layer, frame, field) ==
    [layer EXCEPT
        !.features = [i \in 1..Len(layer.features) |->
            [layer.features[i] EXCEPT
                !.properties = (field :> Loc(frame, LookupKey(layer.features[i]), field))
                               @@ layer.features[i].properties]],
        !.tooltip = <<field>>]

\* what m.add_child adds for one layer: the layer, its colour map, the binding
Added(layer, colormap) == <<layer, colormap, BindColormap(layer, colormap)>>

\* One layer from its construction to the three m.add_child calls: the
\* exception raised ("none" if none), the children added to m before it, and
\* branca_color_map afterwards.
LayerPart(frame, layer, field, previous) ==
    LET colormap == HandleColormap(layer.children, previous)
        done == [WithTooltip(layer, frame, field) EXCEPT
                    !.children = DetachColormap(layer.children)]
    IN  IF ChoroplethRaises(frame, layer.columns) \/ TooltipRaises(layer, frame, field)
        THEN [err |-> "KeyError", added |-> <<>>, colormap |-> previous]
        ELSE IF HandleColormapRaises(layer.children)
        THEN [err |-> "RuntimeError", added |-> <<>>, colormap |-> colormap]
        ELSE IF colormap = Unbound
        THEN [err |-> "UnboundLocalError", added |-> <<done>>, colormap |-> colormap]
        ELSE [err |-> "none", added |-> Added(done, colormap), colormap |-> colormap]

\* a loop body that adds the heading layer before the emergence layer
LoopBodySwapped(fpath, frame, i, previous) ==
    LET h == LayerPart(frame, Heading(frame, fpath), HeadingTooltip, previous)
        e == LayerPart(frame, Emergence(frame, fpath, i), EmergenceTooltip, h.colormap)
    IN  IF SetIndexRaises(frame)
        THEN [err |-> "KeyError", added |-> <<>>, colormap |-> previous]
        ELSE IF h.err # "none" THEN h
        ELSE [err |-> e.err, added |-> h.added \o e.added, colormap |-> e.colormap]

\* the loop body for a file of a selected year, read as frame
LoopBody(fpath, frame, i, previous) ==
    LET e == LayerPart(frame, Emergence(frame, fpath, i), EmergenceTooltip, previous)
        h == LayerPart(frame, Heading(frame, fpath), HeadingTooltip, e.colormap)
    IN  IF SetIndexRaises(frame)
        THEN [err |-> "KeyError", added |-> <<>>, colormap |-> previous]
        ELSE IF e.err # "none" THEN e
        ELSE [err |-> h.err, added |-> e.added \o h.added, colormap |-> h.colormap]

\* data_dir.glob('*.geojson')
Glob(dir) == {f \in dir : f.suffix = GEOJSON}

output_name == "index.html"

VARIABLES
    invocation,        \* "script" (__main__) or "function" (a direct call)
    data_dir,          \* the files of the data directory
    output_dir,        \* the output directory argument
    selected_years,    \* the selected_years argument
    fs_dirs,           \* directories that exist
    fs_written,        \* files written by the run
    pc,                \* "init", "loop", "done", "error", "page"
    error,             \* the exception that ended the run, or "none"
    visited,           \* the files glob has yielded so far, in order
    idx,               \* local idx
    gdf,               \* local gdf: the content of the last file read
    branca_color_map,  \* local branca_color_map ("unbound" before any assignment)
    root_children,     \* children of the figure (m.get_root())
    m_children,        \* children of the map m, in the order added
    shown,             \* page: the layers currently on the map
    display,           \* page: style.display of each bound colormap's legend
    events             \* page: layer-control events so far

vars == <<invocation, data_dir, output_dir, selected_years, fs_dirs, fs_written,
          pc, error, visited, idx, gdf, branca_color_map, root_children,
          m_children, shown, display, events>>


Range(seq) == {seq[i] : i \in 1..Len(seq)}

\* the files glob has still to yield
Pending == Glob(data_dir) \ Range(visited)

Init ==
    /\ invocation \in {"script", "function"}
    /\ data_dir \in {d \in SUBSET NameUniverse : Cardinality(d) <= MaxFiles}
    /\ output_dir \in IF invocation = "script" THEN {"."} ELSE {".", "out"}
    /\ selected_years \in IF invocation = "script" THEN {DEFAULT_SELECTED_YEARS}
                          ELSE SelectedYearsChoices
    /\ fs_dirs \in IF invocation = "script" THEN {{"."}} ELSE {{"."}, {".", "out"}}
    /\ fs_written = {}
    /\ pc = "init"
    /\ error = "none"
    /\ visited = <<>>
    /\ idx = 0
    /\ gdf = Unbound
    /\ branca_color_map = Unbound
    /\ root_children = <<>>
    /\ m_children = <<>>
    /\ shown = {}
    /\ display = <<>>
    /\ events = 0

\* __main__ (output_dir.mkdir(exist_ok=True)) when run as a script, then
\* generate_folium_map up to "idx = 0"
Invoke ==
    /\ pc = "init"
    /\ fs_dirs' = IF invocation = "script" THEN fs_dirs \cup {output_dir} ELSE fs_dirs
    /\ m_children' = <<TileLayer>>
    /\ root_children' = <<"map", "my_custom_style">>
    /\ idx' = 0
    /\ pc' = "loop"
    /\ UNCHANGED <<gdf, invocation, data_dir, output_dir, selected_years, fs_written,
                   error, visited, branca_color_map, shown, display, events>>

\* an iteration that ends in int() raising ValueError
BadName(fpath) ==
    /\ pc = "loop"
    /\ fpath \in Pending
    /\ YearRaises(fpath)
    /\ visited' = Append(visited, fpath)
    /\ pc' = "error"
    /\ error' = "ValueError"
    /\ UNCHANGED <<gdf, invocation, data_dir, output_dir, selected_years, fs_dirs,
                   fs_written, idx, branca_color_map, root_children, m_children,
                   shown, display, events>>

\* an iteration that ends in "continue"
Skip(fpath) ==
    /\ pc = "loop"
    /\ fpath \in Pending
    /\ ~YearRaises(fpath)
    /\ ~Selected(Year(fpath), selected_years)
    /\ visited' = Append(visited, fpath)
    /\ UNCHANGED <<gdf, invocation, data_dir, output_dir, selected_years, fs_dirs,
                   fs_written, pc, error, idx, branca_color_map, root_children,
                   m_children, shown, display, events>>

\* an iteration that swallows the exception and goes on with the next file
ProcessSwallow(fpath, frame) ==
    /\ pc = "loop"
    /\ fpath \in Pending
    /\ ~YearRaises(fpath)
    /\ Selected(Year(fpath), selected_years)
    /\ gdf' = frame
    /\ LET r == LoopBody(fpath, frame, idx, branca_color_map)
       IN  /\ m_children' = m_children \o r.added
           /\ branca_color_map' = r.colormap
           /\ error' = r.err
           /\ pc' = "loop"
           /\ idx' = IF r.err = "none" THEN idx + 1 ELSE idx
    /\ visited' = Append(visited, fpath)
    /\ UNCHANGED <<invocation, data_dir, output_dir, selected_years, fs_dirs,
                   fs_written, root_children, shown, display, events>>

\* an iteration for a file of a selected year, which gpd.read_file reads as frame
Process(fpath, frame) ==
    /\ pc = "loop"
    /\ fpath \in Pending
    /\ ~YearRaises(fpath)
    /\ Selected(Year(fpath), selected_years)
    /\ gdf' = frame
    /\ LET r == LoopBody(fpath, frame, idx, branca_color_map)
       IN  /\ m_children' = m_children \o r.added
           /\ branca_color_map' = r.colormap
           /\ error' = r.err
           /\ pc' = IF r.err = "none" THEN "loop" ELSE "error"
           /\ idx' = IF r.err = "none" THEN idx + 1 ELSE idx
    /\ visited' = Append(visited, fpath)
    /\ UNCHANGED <<invocation, data_dir, output_dir, selected_years, fs_dirs,
                   fs_written, root_children, shown, display, events>>

\* m.add_child(folium.map.LayerControl(...)); m.save(output_dir.joinpath(output_name))
Save ==
    /\ pc = "loop"
    /\ Pending = {}
    /\ m_children' = Append(m_children, LayerControl)
    /\ IF output_dir \in fs_dirs
       THEN /\ fs_written' = fs_written \cup {<<output_dir, output_name>>}
            /\ pc' = "done"
            /\ error' = error
       ELSE /\ fs_written' = fs_written
            /\ pc' = "error"
            /\ error' = "FileNotFoundError"
    /\ UNCHANGED <<gdf, invocation, data_dir, output_dir, selected_years, fs_dirs,
                   visited, idx, branca_color_map, root_children, shown, display,
                   events>>

(***************************************************************************)
(* The saved page.                                                         *)
(***************************************************************************)
Layers == {m_children[i] : i \in {j \in 1..Len(m_children) :
                                     m_children[j].type = "Choropleth"}}

Bindings == {m_children[i] : i \in {j \in 1..Len(m_children) :
                                       m_children[j].type = "BindColormap"}}

\* the page is opened: a layer is on the map iff show; every BindColormap
\* script runs "<colormap>.svg[0][0].style.display = 'block'"
LoadPage ==
    /\ pc = "done"
    /\ pc' = "page"
    /\ shown' = {l.uid : l \in {x \in Layers : x.show}}
    /\ display' = [c \in {b.colormap : b \in Bindings} |-> "block"]
    /\ UNCHANGED <<gdf, invocation, data_dir, output_dir, selected_years, fs_dirs,
                   fs_written, error, visited, idx, branca_color_map, root_children,
                   m_children, events>>

\* the handlers every BindColormap registers on the map
OnOverlay(uid, value) ==
    [c \in DOMAIN display |->
        IF \E b \in Bindings : b.layer = uid /\ b.colormap = c
        THEN value ELSE display[c]]

\* the layer control's checkbox of a hidden layer is ticked
OverlayAdd(uid) ==
    /\ pc = "page"
    /\ events < MaxEvents
    /\ uid \in {l.uid : l \in Layers} \ shown
    /\ shown' = shown \cup {uid}
    /\ display' = OnOverlay(uid, "block")
    /\ events' = events + 1
    /\ UNCHANGED <<gdf, invocation, data_dir, output_dir, selected_years, fs_dirs,
                   fs_written, pc, error, visited, idx, branca_color_map,
                   root_children, m_children>>

\* the layer control's checkbox of a shown layer is cleared
OverlayRemove(uid) ==
    /\ pc = "page"
    /\ events < MaxEvents
    /\ uid \in shown
    /\ shown' = shown \ {uid}
    /\ display' = OnOverlay(uid, "none")
    /\ events' = events + 1
    /\ UNCHANGED <<gdf, invocation, data_dir, output_dir, selected_years, fs_dirs,
                   fs_written, pc, error, visited, idx, branca_color_map,
                   root_children, m_children>>

Next ==
    \/ Invoke
    \/ \E fpath \in NameUniverse : BadName(fpath)
    \/ \E fpath \in NameUniverse : Skip(fpath)
    \/ \E fpath \in NameUniverse, frame \in Contents : Process(fpath, frame)
    \/ Save
    \/ LoadPage
    \/ \E l \in Layers : OverlayAdd(l.uid)
    \/ \E l \in Layers : OverlayRemove(l.uid)

Spec == Init /\ [][Next]_vars


(***************************************************************************)
(* The properties.                                                         *)
(***************************************************************************)
Children(type) == {j \in 1..Len(m_children) : m_children[j].type = type}

IsLayer(j, label) ==
    /\ j \in 1..Len(m_children)
    /\ m_children[j].type = "Choropleth"
    /\ m_children[j].name[2] = label

\* the layers made from the file of this stem
LayersOf(stem, label) ==
    {j \in Children("Choropleth") :
        m_children[j].uid[1] = stem /\ m_children[j].name[2] = label}

LayersOfYear(year, label) ==
    {j \in Children("Choropleth") :
        m_children[j].name[1] = year /\ m_children[j].name[2] = label}

Succeeded == pc \in {"done", "page"}

\* the *.geojson files of a selected year
SelectedFiles == {f \in Glob(data_dir) : Selected(Year(f), selected_years)}

\* what follows the last '_' or '-' of the stem
TrailingToken(stem) ==
    LET cuts == {i \in 1..Len(stem) : stem[i] \in {"_", "-"}}
    IN  SubSeq(stem, (IF cuts = {} THEN 0
                      ELSE CHOOSE i \in cuts : \A j \in cuts : j <= i) + 1, Len(stem))

NoTrailingYear(f) == IntRaises(TrailingToken(f.stem))

\* C1, as stated: after a successful run every year of selected_years that
\* has a *.geojson file has exactly two layers (one emergence, one heading),
\* and no layer belongs to a year outside selected_years.
C1_TwoLayersPerYear ==
    Succeeded =>
        /\ \A i \in 1..Len(selected_years) :
              (\E f \in Glob(data_dir) : Year(f) = selected_years[i]) =>
                  /\ Cardinality(LayersOfYear(selected_years[i], "Auflaufen")) = 1
                  /\ Cardinality(LayersOfYear(selected_years[i], "Aehrenschieben")) = 1
        /\ \A j \in Children("Choropleth") :
              Selected(m_children[j].name[1], selected_years)

\* C1, amended: after a successful run every *.geojson file whose parsed year
\* is in selected_years has exactly two layers (one emergence, one heading),
\* there is no other layer, no layer belongs to a file whose year is not
\* selected, and with an empty selected_years the map holds the base map and
\* the layer control only, beside the custom overlay of the figure.
C1_TwoLayersPerFile ==
    Succeeded =>
        /\ \A f \in Glob(data_dir) :
              IF NoTrailingYear(f) THEN FALSE
              ELSE IF PyInt(TrailingToken(f.stem)) \in Range(selected_years)
              THEN /\ Cardinality(LayersOf(f.stem, "Auflaufen")) = 1
                   /\ Cardinality(LayersOf(f.stem, "Aehrenschieben")) = 1
              ELSE /\ LayersOf(f.stem, "Auflaufen") = {}
                   /\ LayersOf(f.stem, "Aehrenschieben") = {}
        /\ Cardinality(Children("Choropleth")) =
              2 * Cardinality({f \in Glob(data_dir) :
                     PyInt(TrailingToken(f.stem)) \in Range(selected_years)})
        /\ selected_years = <<>> =>
              /\ m_children = <<TileLayer, LayerControl>>
              /\ root_children = <<"map", "my_custom_style">>

\* files of 2016, 2018 and 2019 with selected_years = [2018, 2019]: four layers
C1_Witness ==
    /\ Succeeded
    /\ selected_years = <<2018, 2019>>
    /\ {Year(f) : f \in Glob(data_dir)} = {2016, 2018, 2019}
    /\ Cardinality(Children("Choropleth")) = 4

\* C2, as stated: whenever selected_years is non-empty, a successful run
\* leaves exactly one layer with show=True, the first layer processed.
C2_OneVisibleIfYears ==
    (Succeeded /\ selected_years # <<>>) =>
        /\ Children("Choropleth") # {}
        /\ \A j \in Children("Choropleth") :
              m_children[j].show <=> \A k \in Children("Choropleth") : j <= k

\* C2, amended: whenever at least one file has been processed, exactly one
\* layer has show=True, namely the first one added, which is the emergence
\* layer of the first processed file; every heading layer and every later
\* emergence layer has show=False.  (No processed file: no layer at all.)
C2_OneVisibleIfProcessed ==
    /\ \A j \in Children("Choropleth") :
          m_children[j].show <=>
              /\ \A k \in Children("Choropleth") : j <= k
              /\ m_children[j].name[2] = "Auflaufen"
    /\ (Succeeded /\ SelectedFiles # {}) =>
          Cardinality({j \in Children("Choropleth") : m_children[j].show}) = 1
    /\ (Succeeded /\ SelectedFiles = {}) => Children("Choropleth") = {}

\* two files processed and one skipped before them
C2_Witness ==
    /\ Succeeded
    /\ Cardinality(Children("Choropleth")) = 4
    /\ Len(visited) = 3
    /\ ~Selected(Year(visited[1]), selected_years)

\* C3: in the page a legend is displayed iff the layer it is bound to is
\* on the map, initially and after any overlayadd/overlayremove events.
C3_LegendLockStep ==
    pc = "page" =>
        \A b \in Bindings : (display[b.colormap] = "block") <=> (b.layer \in shown)

\* C4: every tooltip lookup succeeds (no KeyError for a file that has all
\* its columns) and gives the feature the date string of the row whose
\* geometry it carries.
C4_LookupSameFeature ==
    /\ \A j \in Children("Choropleth") :
          \A i \in 1..Len(m_children[j].features) :
              LET s == m_children[j].features[i]
              IN  m_children[j].tooltip # <<>> =>
                      s.properties[m_children[j].tooltip[1]] =
                          <<m_children[j].tooltip[1], s.geometry[2]>>
    /\ (pc = "error" /\ error = "KeyError") => gdf.columns # AllColumns

\* C5: an emergence layer's tooltip shows only the emergence date column and
\* its fill is the emergence day of year; a heading layer's tooltip shows
\* only the heading date column and its fill is the heading day of year; the
\* value shown for a feature is a value of that same column.
C5_TooltipMatchesLayer ==
    \A j \in Children("Choropleth") :
        LET l == m_children[j]
            date == IF l.name[2] = "Auflaufen" THEN "Auflaufen (BBCH 09)"
                    ELSE "Ende des Aehrenschieben (BBCH 59)"
            doy == IF l.name[2] = "Auflaufen" THEN "emergence_date:doy"
                   ELSE "heading_date:doy"
        IN  /\ l.name[2] \in {"Auflaufen", "Aehrenschieben"}
            /\ l.tooltip = <<date>>
            /\ l.columns = <<"id", doy>>
            /\ \A i \in 1..Len(l.features) : l.features[i].properties[date][1] = date

C5_Witness ==
    /\ Succeeded
    /\ \E j \in Children("Choropleth") : m_children[j].name[2] = "Auflaufen"
    /\ \E j \in Children("Choropleth") :
          /\ m_children[j].name[2] = "Aehrenschieben"
          /\ Len(m_children[j].features) = 2
          /\ m_children[j].tooltip = <<COL_HEADING_DATE>>

\* C6, as stated: a run never succeeds with, in the input directory, a file
\* whose stem has no trailing numeric token.
C6_AnyFileRaises ==
    Succeeded => \A f \in data_dir : ~NoTrailingYear(f)

\* C6, amended: a *.geojson file of the input directory whose stem has no
\* trailing numeric token ends the run with ValueError in the iteration that
\* reaches it, whatever selected_years is and wherever the file falls in the
\* enumeration; it is never skipped or processed, and no run succeeds with
\* such a file in the directory.
C6_GeojsonFileRaises ==
    /\ \A i \in 1..Len(visited) :
          NoTrailingYear(visited[i]) =>
              /\ i = Len(visited)
              /\ pc = "error"
              /\ error = "ValueError"
    /\ Succeeded => \A f \in Glob(data_dir) : ~NoTrailingYear(f)

\* the malformed name is reached after another file, with nothing selected
C6_Witness ==
    /\ pc = "error"
    /\ error = "ValueError"
    /\ selected_years = <<>>
    /\ Len(visited) = 2
    /\ NoTrailingYear(visited[2])

\* C7: a run that fails writes no file; a file is written only when every
\* *.geojson file has been gone through without an exception and the layer
\* control has been added as the last child.
C7_NoPartialOutput ==
    /\ pc = "error" => fs_written = {}
    /\ pc \in {"init", "loop"} => fs_written = {}
    /\ fs_written # {} =>
          /\ error = "none"
          /\ Pending = {}
          /\ m_children[Len(m_children)] = LayerControl
          /\ \A i \in 1..Len(visited) : ~YearRaises(visited[i])

\* a run that failed in the heading part of its second processed file
C7_Witness ==
    /\ pc = "error"
    /\ error = "KeyError"
    /\ Cardinality(Children("Choropleth")) = 3
    /\ fs_written = {}

\* C8: a run whose loop raises nothing ends with the output directory in
\* place and exactly the file <output_dir>/<output_name> written, as a script
\* and as a function call.
C8_OutputDirCreated ==
    (pc \in {"done", "error"} /\ error \in {"none", "FileNotFoundError"}) =>
        /\ output_dir \in fs_dirs
        /\ fs_written = {<<output_dir, output_name>>}

\* C9: every layer added to the map has lost its colour map as a child, is
\* followed by the colour map made by that same layer and by a BindColormap
\* of the two, and every colour map is bound exactly once.
C9_OwnColormapBound ==
    /\ \A j \in Children("Choropleth") :
          /\ \A k \in 1..Len(m_children[j].children) :
                m_children[j].children[k][1] # "color_map"
          /\ j + 2 <= Len(m_children)
          /\ m_children[j + 1] = [type |-> "ColorMap", uid |-> m_children[j].uid]
          /\ m_children[j + 2] = [type |-> "BindColormap",
                                  layer |-> m_children[j].uid,
                                  colormap |-> m_children[j].uid]
    /\ \A j \in Children("BindColormap") : m_children[j].layer = m_children[j].colormap
    /\ \A j \in Children("ColorMap") :
          Cardinality({k \in Children("BindColormap") :
                          m_children[k].colormap = m_children[j].uid}) = 1

C9_Witness ==
    /\ Succeeded
    /\ Cardinality(Children("BindColormap")) = 4
    /\ Cardinality({m_children[j].colormap : j \in Children("BindColormap")}) = 4

\* C10: while no exception is raised, each emergence layer, its colour map
\* and its binding are followed at once by the heading layer of the same file
\* and year, its colour map and its binding; the layer control is a child
\* only once every file has been gone through, as the last child.
C10_PairsTogether ==
    error = "none" =>
        /\ \A j \in Children("Choropleth") :
              IF m_children[j].name[2] = "Auflaufen"
              THEN /\ IsLayer(j + 3, "Aehrenschieben")
                   /\ m_children[j + 3].name[1] = m_children[j].name[1]
                   /\ m_children[j + 3].uid[1] = m_children[j].uid[1]
                   /\ {j + 1, j + 2} \cap Children("Choropleth") = {}
              ELSE /\ IsLayer(j - 3, "Auflaufen")
                   /\ j + 2 <= Len(m_children)
        /\ \A j \in Children("LayerControl") : j = Len(m_children) /\ Pending = {}
        /\ Succeeded => Children("LayerControl") = {Len(m_children)}

\* three files gone through in some order, two of them of the same year
C10_Witness ==
    /\ Succeeded
    /\ Cardinality(Children("Choropleth")) = 6
    /\ m_children[2].name[1] = 2019
    /\ m_children[8].name[1] = 2018

====
